---- MODULE Spec2Model ----
(***************************************************************************)
(* Transport layer of the asana-go client: get / post / put /              *)
(* postMultipart, the response envelope decoder, option merging, and the   *)
(* resource operations of sections.go that call them.                      *)
(*                                                                         *)
(* Conventions.  A Go pointer is a sequence of length 0 (nil) or 1 (the    *)
(* pointee).  A Go string used as an opaque token is a TLA+ string; an API *)
(* path is a sequence of one-character/one-chunk tokens whose first        *)
(* element is its first byte.  An error is a record, NoError being nil.    *)
(***************************************************************************)
EXTENDS Integers, Sequences, FiniteSets, TLC

VARIABLES
    DefaultOptions,  \* Client.DefaultOptions
    callerOpts,      \* an Options value owned by the caller, passed by pointer
    constructed,     \* what the caller wrote into callerOpts when constructing it
    last,            \* the last completed call: its inputs, requests and returns
    ap               \* the activation record of a running Workspace.AllProjects

vars == <<DefaultOptions, callerOpts, constructed, last, ap>>

---------------------------------------------------------------------------
(* Bounds of the model *)

MaxItems == 2        \* elements of a "data" array
MaxRequests == 3     \* listing requests one AllProjects run may issue
MaxFile == 1         \* bytes of an uploaded file

(* Program constants *)

PageLimit == 100     \* Options.Limit of every AllProjects page
StatusOK == 200
StatusCreated == 201

---------------------------------------------------------------------------
(* Errors *)

NoError == [kind |-> "nil", status |-> 0, messages |-> <<>>]
Err(kind) == [kind |-> kind, status |-> 0, messages |-> <<>>]

\* Response.Error: the API error of a non-2xx response
ResponseError(status, errs) ==
    [kind |-> "api", status |-> status, messages |-> errs]

---------------------------------------------------------------------------
(* Options and url.Values *)

Keys == {"limit", "offset", "opt_fields", "workspace"}
KeyOrder == <<"limit", "offset", "opt_fields", "workspace">>

ZeroOptions == [Limit |-> 0, Offset |-> "", Fields |-> <<>>]

\* url.Values{}: no key has a value
EmptyValues == [k \in Keys |-> <<>>]

\* query.Values of an Options value (every tag is omitempty); a nil *Options
\* encodes to no parameters.  p is a pointer: <<>> or <<o>>.
OptionsValues(o) ==
    [k \in Keys |->
        CASE k = "limit"      -> IF o.Limit = 0 THEN <<>> ELSE <<ToString(o.Limit)>>
          [] k = "offset"     -> IF o.Offset = "" THEN <<>> ELSE <<o.Offset>>
          [] k = "opt_fields" -> o.Fields
          [] OTHER            -> <<>>]

QueryValues(p) == IF p = <<>> THEN EmptyValues ELSE OptionsValues(p[1])

\* url.Values.Del and url.Values.Add
ValuesDel(q, key) == [q EXCEPT ![key] = <<>>]
ValuesAdd(q, key, value) == [q EXCEPT ![key] = Append(@, value)]

RECURSIVE AddEach(_, _, _)
AddEach(q, key, values) ==
    IF values = <<>> THEN q
    ELSE AddEach(ValuesAdd(q, key, Head(values)), key, Tail(values))

\* the body of mergeQuery's loop for one key of queryParams
\* (faulty variant: the earlier values are kept and the later ones appended)
MergeKey_NoDel(q, key, values) == AddEach(q, key, values)
MergeKey(q, key, values) == AddEach(ValuesDel(q, key), key, values)

\* mergeQuery's loop over the keys query.Values produced (those with values)
RECURSIVE MergeKeys(_, _, _)
MergeKeys(q, params, i) ==
    IF i > Len(KeyOrder) THEN q
    ELSE LET key == KeyOrder[i] IN
         MergeKeys(IF params[key] = <<>> THEN q ELSE MergeKey(q, key, params[key]),
                   params, i + 1)

mergeQuery(q, params) == MergeKeys(q, params, 1)

\* get's loop "for _, options := range opts": later Options merge over earlier
RECURSIVE MergeOpts(_, _)
MergeOpts(q, opts) ==
    IF opts = <<>> THEN q
    ELSE MergeOpts(mergeQuery(q, QueryValues(Head(opts))), Tail(opts))

\* len(q) > 0
NonEmptyValues(q) == \E k \in Keys : q[k] # <<>>

\* url.Values.Encode: the key=value pairs, keys in sorted order
RECURSIVE EncodePairs(_, _)
EncodePairs(key, values) ==
    IF values = <<>> THEN <<>>
    ELSE <<<<key, Head(values)>>>> \o EncodePairs(key, Tail(values))

RECURSIVE EncodeFrom(_, _)
EncodeFrom(q, i) ==
    IF i > Len(KeyOrder) THEN <<>>
    ELSE EncodePairs(KeyOrder[i], q[KeyOrder[i]]) \o EncodeFrom(q, i + 1)

Encode(q) == EncodeFrom(q, 1)

\* the values a request's encoded query carries for a key, in order
RECURSIVE PairsOf(_, _)
PairsOf(pairs, key) ==
    IF pairs = <<>> THEN <<>>
    ELSE (IF Head(pairs)[1] = key THEN <<Head(pairs)[2]>> ELSE <<>>)
         \o PairsOf(Tail(pairs), key)

\* mergo.Merge(dst, src) without override: src fills the empty fields of dst
MergoMerge(dst, src) ==
    [Limit  |-> IF dst.Limit = 0 THEN src.Limit ELSE dst.Limit,
     Offset |-> IF dst.Offset = "" THEN src.Offset ELSE dst.Offset,
     Fields |-> IF dst.Fields = <<>> THEN src.Fields ELSE dst.Fields]

---------------------------------------------------------------------------
(* JSON values on the wire and their decoding (encoding/json) *)

FieldNames == {"gid", "name"}
Items == {"p1", "p2"}
FieldVals == {"1"}
BadElem == "#bad"        \* an array element that is not an object
ZeroElem == "#zero"      \* what a mistyped element leaves in the slice
BadField == "#bad"       \* a field value of the wrong JSON type
AbsentField == "#absent"
NoFields == [f \in FieldNames |-> AbsentField]

JAbsent == [t |-> "absent", elems |-> <<>>, fields |-> NoFields]
JNull == [t |-> "null", elems |-> <<>>, fields |-> NoFields]
JArray(es) == [t |-> "array", elems |-> es, fields |-> NoFields]
JObject(fs) == [t |-> "object", elems |-> <<>>, fields |-> fs]

\* the destination a caller hands to the transport ("result interface{}")
NilResult == [kind |-> "nil", elems |-> <<>>, fields |-> [f \in FieldNames |-> ""]]
SliceResult(es) == [kind |-> "slice", elems |-> es, fields |-> [f \in FieldNames |-> ""]]
StructResult(fs) == [kind |-> "struct", elems |-> <<>>, fields |-> fs]
ZeroStruct == StructResult([f \in FieldNames |-> ""])

\* Response.Data is a json.RawMessage: it stays nil only when the envelope has
\* no "data" member; RawMessage.UnmarshalJSON is also called for a JSON null
\* and stores the four bytes of the literal.
RawMessage(field) == IF field.t = "absent" THEN <<>> ELSE <<field>>

\* Response.NextPage is a *NextPage: nil for an absent or null member
NextPagePtr(field) ==
    IF field.t = "object" THEN <<[Offset |-> field.Offset]>> ELSE <<>>

\* json.Unmarshal(body, value) of parseResponse, for a body that is an envelope
UnmarshalEnvelope(body) ==
    [Data |-> RawMessage(body.data),
     NextPage |-> NextPagePtr(body.next_page),
     Errors |-> body.errors]

DecodeElems(es) == [i \in 1..Len(es) |-> IF es[i] = BadElem THEN ZeroElem ELSE es[i]]
DecodeFields(fs, old) ==
    [f \in FieldNames |-> IF fs[f] \in {AbsentField, BadField} THEN old[f] ELSE fs[f]]

\* json.Unmarshal(data, result): the first type error is returned after the
\* rest of the value has been stored
Unmarshal(data, result) ==
    CASE result.kind = "nil" ->
            [err |-> Err("InvalidUnmarshalError"), result |-> result]
      [] result.kind = "slice" /\ data.t = "null" ->
            [err |-> NoError, result |-> SliceResult(<<>>)]
      [] result.kind = "slice" /\ data.t = "array" ->
            [err |-> IF \E i \in 1..Len(data.elems) : data.elems[i] = BadElem
                     THEN Err("UnmarshalTypeError") ELSE NoError,
             result |-> SliceResult(DecodeElems(data.elems))]
      [] result.kind = "struct" /\ data.t = "null" ->
            [err |-> NoError, result |-> result]
      [] result.kind = "struct" /\ data.t = "object" ->
            [err |-> IF \E f \in FieldNames : data.fields[f] = BadField
                     THEN Err("UnmarshalTypeError") ELSE NoError,
             result |-> StructResult(DecodeFields(data.fields, result.fields))]
      [] OTHER ->
            [err |-> Err("UnmarshalTypeError"), result |-> result]

parseResponseData(data, result) == Unmarshal(data, result)

\* Client.parseResponse: [value, err, result]; value is a *Response
IsSuccess(status) == status = StatusOK \/ status = StatusCreated

ParseFail(e, result) == [value |-> <<>>, err |-> e, result |-> result]

\* (faulty variant: the data member is decoded before the status is looked at)
parseResponse_DecodeFirst(resp, result) ==
    IF resp.body.form = "unreadable" THEN ParseFail(Err("read body"), result)
    ELSE IF resp.body.form = "malformed" THEN ParseFail(Err("SyntaxError"), result)
    ELSE LET value == UnmarshalEnvelope(resp.body) IN
         IF value.Data = <<>>
         THEN ParseFail(Err("Missing data from response"), result)
         ELSE LET d == parseResponseData(value.Data[1], result) IN
              IF ~IsSuccess(resp.status)
              THEN [value |-> <<>>, err |-> ResponseError(resp.status, value.Errors),
                    result |-> d.result]
              ELSE [value |-> <<value>>, err |-> d.err, result |-> d.result]

parseResponse(resp, result) ==
    IF resp.body.form = "unreadable" THEN ParseFail(Err("read body"), result)
    ELSE IF resp.body.form = "malformed" THEN ParseFail(Err("SyntaxError"), result)
    ELSE LET value == UnmarshalEnvelope(resp.body) IN
         IF ~IsSuccess(resp.status)
         THEN ParseFail(ResponseError(resp.status, value.Errors), result)
         ELSE IF value.Data = <<>>
         THEN ParseFail(Err("Missing data from response"), result)
         ELSE LET d == parseResponseData(value.Data[1], result) IN
              [value |-> <<value>>, err |-> d.err, result |-> d.result]

---------------------------------------------------------------------------
(* The transport primitives.  c is the Client, net what HTTPClient.Do yields *)
(* for the request: [ok, status, body].  data is an interface value:       *)
(* <<>> for nil, else <<[validate, encodes, marshals, params]>>.           *)

Range(s) == {s[i] : i \in 1..Len(s)}

\* Client.getURL panics unless path[0] = '/'
ValidPath(path) == path # <<>> /\ path[1] = "/"

\* http.NewRequest fails when the URL does not parse (a "%" that starts no escape)
NewRequestOK(url) == "%" \notin Range(url)

\* data.(Validator) and its Validate()
\* (faulty variant: Validate is never consulted)
ValidateFails_Never(data) == FALSE
ValidateFails(data) == data # <<>> /\ data[1].validate = "fail"

Request(method, url, query, json, bytes, c) ==
    [method |-> method, url |-> url, query |-> query, json |-> json,
     bytes |-> bytes, fast |-> c.FastAPI]

Outcome(exit, err, np, result, reqs, options, closes) ==
    [exit |-> exit, err |-> err, nextPage |-> np, result |-> result,
     requests |-> reqs, options |-> options, closes |-> closes]

Panics(result, options) == Outcome("panic", NoError, <<>>, result, <<>>, options, 0)
Fails(e, result, reqs, options) == Outcome("return", e, <<>>, result, reqs, options, 0)

\* Client.get
get(c, path, data, result, opts, net) ==
    LET q0 == OptionsValues(c.DefaultOptions) IN
    IF ValidateFails(data) THEN Fails(Err("validation"), result, <<>>, <<>>)
    ELSE IF data # <<>> /\ ~data[1].encodes
    THEN Fails(Err("Unable to marshal request to query parameters"), result, <<>>, <<>>)
    ELSE
    LET q1 == IF data # <<>> THEN mergeQuery(q0, data[1].params) ELSE q0
        q == MergeOpts(q1, opts)
        url == IF NonEmptyValues(q) THEN path \o <<"?">> ELSE path
        req == Request("GET", url, Encode(q), <<>>, <<>>, c)
    IN
    IF ~ValidPath(url) THEN Panics(result, <<>>)
    ELSE IF ~NewRequestOK(url) THEN Fails(Err("Request error"), result, <<>>, <<>>)
    ELSE IF ~net.ok THEN Fails(Err("GET error"), result, <<req>>, <<>>)
    ELSE LET r == parseResponse(net, result) IN
         IF r.err # NoError THEN Fails(r.err, r.result, <<req>>, <<>>)
         ELSE Outcome("return", NoError, r.value[1].NextPage, r.result, <<req>>, <<>>, 0)

\* Client.do; the returned options is the Options object the call merged into:
\* the caller's own when opts[0] is a non-nil pointer
do(method, c, path, data, result, opts, net) ==
    LET given == IF opts # <<>> THEN opts[1] ELSE <<>>
        fresh == IF given = <<>> THEN ZeroOptions ELSE given[1]
        options == MergoMerge(fresh, c.DefaultOptions)
        body == [data |-> data, options |-> OptionsValues(options)]
        req == Request(method, path, <<>>, <<body>>, <<>>, c)
    IN
    IF ValidateFails(data) THEN Fails(Err("validation"), result, <<>>, <<options>>)
    ELSE IF data # <<>> /\ ~data[1].marshals
    THEN Fails(Err("json: unsupported type"), result, <<>>, <<options>>)
    ELSE IF ~ValidPath(path) THEN Panics(result, <<options>>)
    ELSE IF ~NewRequestOK(path) THEN Fails(Err("Request error"), result, <<>>, <<options>>)
    ELSE IF ~net.ok THEN Fails(Err("error"), result, <<req>>, <<options>>)
    ELSE LET r == parseResponse(net, result) IN
         Outcome("return", r.err, <<>>, r.result, <<req>>, <<options>>, 0)

post(c, path, data, result, opts, net) == do("POST", c, path, data, result, opts, net)
put(c, path, data, result, opts, net) == do("PUT", c, path, data, result, opts, net)

\* escapeQuotes: backslash and double quote get a backslash in front
RECURSIVE escapeQuotes(_)
escapeQuotes(s) ==
    IF s = <<>> THEN <<>>
    ELSE (IF Head(s) \in {"\\", "\""} THEN <<"\\", Head(s)>> ELSE <<Head(s)>>)
         \o escapeQuotes(Tail(s))

\* the part header multipart.Writer.CreatePart writes, and the closing boundary
MultipartHeader(field, filename, contentType) ==
    <<"--boundary", "name=">> \o escapeQuotes(field)
    \o <<"filename=">> \o escapeQuotes(filename) \o <<contentType, "CRLFCRLF">>
MultipartFooter == <<"CRLF--boundary--">>

\* http.NewRequest wraps the MultiReader, which is no io.Closer, in a NopCloser:
\* the transport closing the request body leaves r open
CloseBody(o) == o

\* Client.postMultipart below its "defer r.Close()"; writer is what the
\* multipart.Writer reports: "ok", "header" (CreatePart fails) or "footer"
postMultipartBody(c, path, result, field, file, filename, contentType, writer, net) ==
    LET header == MultipartHeader(field, filename, contentType)
        req == Request("POST", path, <<>>, <<>>,
                       header \o file \o MultipartFooter, c)
    IN
    IF writer = "header" THEN Fails(Err("create multipart header"), result, <<>>, <<>>)
    ELSE IF writer = "footer" THEN Fails(Err("create multipart footer"), result, <<>>, <<>>)
    ELSE IF ~ValidPath(path) THEN Panics(result, <<>>)
    ELSE IF ~NewRequestOK(path) THEN Fails(Err("Request error"), result, <<>>, <<>>)
    ELSE IF ~net.ok THEN CloseBody(Fails(Err("POST error"), result, <<req>>, <<>>))
    ELSE LET r == parseResponse(net, result) IN
         CloseBody(Outcome("return", r.err, <<>>, r.result, <<req>>, <<>>, 0))

\* the deferred r.Close() runs on every exit, a panic included
\* (faulty variant: the stream is closed on a return but not on a panic)
Deferred_OnReturnOnly(o) == IF o.exit = "return" THEN [o EXCEPT !.closes = @ + 1] ELSE o
Deferred(o) == [o EXCEPT !.closes = @ + 1]

postMultipart(c, path, result, field, file, filename, contentType, writer, net) ==
    Deferred(postMultipartBody(c, path, result, field, file, filename,
                               contentType, writer, net))

---------------------------------------------------------------------------
(* The resource operations of sections.go.  id is the object's ID, a       *)
(* sequence of characters; fmt.Sprintf concatenates it into the literal.   *)

ProjectsLit == <<"p", "r", "o", "j", "e", "c", "t", "s">>
SectionsLit == <<"s", "e", "c", "t", "i", "o", "n", "s">>
WorkspacesLit == <<"w", "o", "r", "k", "s", "p", "a", "c", "e", "s">>
InsertLit == <<"i", "n", "s", "e", "r", "t">>

\* "/sections/%s"
ExpandPath(id) == <<"/">> \o SectionsLit \o <<"/">> \o id
\* "/projects/%s/sections"
SectionsPath(id) == <<"/">> \o ProjectsLit \o <<"/">> \o id \o <<"/">> \o SectionsLit
\* "projects/%s/sections"
CreateSectionPath(id) == ProjectsLit \o <<"/">> \o id \o <<"/">> \o SectionsLit
\* "projects/%s/sections/insert"
InsertSectionPath(id) ==
    ProjectsLit \o <<"/">> \o id \o <<"/">> \o SectionsLit \o <<"/">> \o InsertLit
\* "/projects/%s"
FetchPath(id) == <<"/">> \o ProjectsLit \o <<"/">> \o id
\* "/workspaces/%s/projects"
ProjectsPath(id) == <<"/">> \o WorkspacesLit \o <<"/">> \o id \o <<"/">> \o ProjectsLit
\* "/projects"
CreateProjectPath == <<"/">> \o ProjectsLit

NoOutcome == Outcome("none", NoError, <<>>, NilResult, <<>>, <<>>, 0)
NoNet == [ok |-> FALSE, status |-> 0,
          body |-> [form |-> "unreadable", data |-> JAbsent,
                    next_page |-> [t |-> "absent", Offset |-> ""], errors |-> <<>>]]
NoUpload == [field |-> <<>>, file |-> <<>>, filename |-> <<>>, writer |-> "ok"]

Call(op, A, path, data, before, opts, net, up, out) ==
    [op |-> op, A |-> A, path |-> path, data |-> data, before |-> before,
     opts |-> opts, net |-> net, up |-> up, out |-> out]

NoCall == Call("none", ZeroOptions, <<>>, <<>>, NilResult, <<>>, NoNet, NoUpload, NoOutcome)

Client == [DefaultOptions |-> DefaultOptions, FastAPI |-> TRUE]

\* Section.Expand: an expanded section is not loaded again
Expand(c, s, net) ==
    IF s.expanded THEN Outcome("return", NoError, <<>>, s.result, <<>>, <<>>, 0)
    ELSE get(c, ExpandPath(s.ID), <<>>, s.result, <<>>, net)

\* Project.Sections and Workspace.Projects: "var result" starts as a nil slice
Sections(c, id, opts, net) == get(c, SectionsPath(id), <<>>, SliceResult(<<>>), opts, net)
Projects(c, id, opts, net) == get(c, ProjectsPath(id), <<>>, SliceResult(<<>>), opts, net)

\* Project.Fetch decodes into the project itself
Fetch(c, p, opts, net) == get(c, FetchPath(p.ID), <<>>, p.result, opts, net)

\* Project.CreateSection, Project.InsertSection, Client.CreateProject
CreateSection(c, id, section, net) ==
    post(c, CreateSectionPath(id), section, ZeroStruct, <<>>, net)
InsertSection(c, id, request, net) ==
    post(c, InsertSectionPath(id), request, NilResult, <<>>, net)
CreateProject(c, project, net) ==
    post(c, CreateProjectPath, project, ZeroStruct, <<>>, net)

---------------------------------------------------------------------------
(* Workspace.AllProjects, one loop iteration at a time.  a is its          *)
(* activation record; requests and nets log what it sent and received.     *)

\* allProjects = append(allProjects, projects...)
\* (faulty variant: each page replaces what was accumulated)
Accumulate_Overwrite(all, projects) == projects
Accumulate(all, projects) == all \o projects

\* the Options of the next page and the argument list handed to Projects
PageOptions(nextPage) ==
    [Limit |-> PageLimit, Offset |-> nextPage[1].Offset, Fields |-> <<>>]
AllOptions(page, options) == <<<<page>>>> \o options

NoReturn == [exit |-> "none", result |-> <<>>, err |-> NoError]
Idle == [pc |-> "idle", id |-> <<>>, options |-> <<>>, allProjects |-> <<>>,
         nextPage |-> <<>>, requests |-> <<>>, nets |-> <<>>, ret |-> NoReturn]

\* entry: allProjects is nil and nextPage := &NextPage{}
AllProjectsEnter(id, options) ==
    [Idle EXCEPT !.pc = "loop", !.id = id, !.options = options,
                 !.nextPage = <<[Offset |-> ""]>>]

\* one pass through "for nextPage != nil { ... }" and, when it ends the
\* loop or fails, the return
AllProjectsIterate(a, c, net) ==
    LET o == Projects(c, a.id, AllOptions(PageOptions(a.nextPage), a.options), net)
        b == [a EXCEPT !.requests = @ \o o.requests,
                       !.nets = IF o.requests = <<>> THEN @ ELSE Append(@, net)]
    IN
    IF o.exit = "panic"
    THEN [b EXCEPT !.pc = "done", !.ret = [exit |-> "panic", result |-> <<>>, err |-> NoError]]
    ELSE IF o.err # NoError
    THEN [b EXCEPT !.pc = "done", !.ret = [exit |-> "return", result |-> <<>>, err |-> o.err]]
    ELSE LET all == Accumulate(a.allProjects, o.result.elems) IN
         IF o.nextPage # <<>>
         THEN [b EXCEPT !.allProjects = all, !.nextPage = o.nextPage]
         ELSE [b EXCEPT !.allProjects = all, !.nextPage = <<>>, !.pc = "done",
                        !.ret = [exit |-> "return", result |-> all, err |-> NoError]]

---------------------------------------------------------------------------
(* Input domains *)

SeqUpTo(S, n) == UNION {[1..k -> S] : k \in 0..n}

Opt(l, o, f) == [Limit |-> l, Offset |-> o, Fields |-> f]
OptionChoices ==
    {ZeroOptions, Opt(50, "", <<>>), Opt(0, "a", <<>>), Opt(20, "", <<"name">>),
     Opt(0, "b", <<"gid", "notes">>), Opt(50, "b", <<"name">>)}

Data(v, e, m, params) == <<[validate |-> v, encodes |-> e, marshals |-> m, params |-> params]>>
Filter == [EmptyValues EXCEPT !["limit"] = <<"7">>, !["workspace"] = <<"w">>]
PlainData == Data("none", TRUE, TRUE, Filter)
DataChoices ==
    {<<>>, PlainData, Data("ok", TRUE, TRUE, Filter), Data("fail", TRUE, TRUE, Filter),
     Data("none", FALSE, FALSE, EmptyValues)}

NoPage == [t |-> "absent", Offset |-> ""]
NullPage == [t |-> "null", Offset |-> ""]
Page(offset) == [t |-> "object", Offset |-> offset]

Envelope(status, data, np, errs) ==
    [ok |-> TRUE, status |-> status,
     body |-> [form |-> "envelope", data |-> data, next_page |-> np, errors |-> errs]]
BadBody(status, form) ==
    [ok |-> TRUE, status |-> status,
     body |-> [form |-> form, data |-> JAbsent, next_page |-> NoPage, errors |-> <<>>]]
NetFail == NoNet

Obj(gid, name) == JObject([f \in FieldNames |-> IF f = "gid" THEN gid ELSE name])
FieldChoices == FieldVals \cup {AbsentField, BadField}
JsonChoices ==
    {JAbsent, JNull}
    \cup {JArray(es) : es \in SeqUpTo(Items \cup {BadElem}, MaxItems)}
    \cup {Obj(g, n) : g \in FieldChoices, n \in FieldChoices}

Statuses == {StatusOK, StatusCreated, 404}
ErrorLists == {<<>>, <<"not found">>}

\* every reply the decoder distinguishes
DecodeNets ==
    {NetFail, BadBody(StatusOK, "unreadable"), BadBody(StatusOK, "malformed")}
    \cup {Envelope(st, d, np, es) : st \in Statuses, d \in JsonChoices,
                                    np \in {NullPage, Page("a")}, es \in ErrorLists}

\* a few replies: a failure, a record, a list with a mistyped element, an API error
FewNets ==
    {NetFail,
     Envelope(StatusOK, Obj("1", AbsentField), NullPage, <<>>),
     Envelope(StatusCreated, Obj("1", BadField), NullPage, <<>>),
     Envelope(StatusOK, JArray(<<"p1", BadElem>>), Page("a"), <<>>),
     Envelope(StatusOK, JNull, NullPage, <<>>),
     Envelope(404, JAbsent, NoPage, <<"not found">>)}

\* listing replies: pages of projects with or without a cursor, and failures
PageArrays == {JArray(es) : es \in SeqUpTo(Items, MaxItems - 1)}
PagingNets ==
    {NetFail, Envelope(404, JAbsent, NoPage, <<"not found">>),
     Envelope(StatusOK, JArray(<<BadElem>>), Page("a"), <<>>)}
    \cup {Envelope(StatusOK, d, np, <<>>) : d \in PageArrays, np \in {NullPage, Page("a")}}

Prefilled == StructResult([f \in FieldNames |-> "old"])
ResultChoices == {NilResult, SliceResult(<<>>), ZeroStruct, Prefilled}

IDs == {<<>>, <<"7">>, <<"/", "7">>, <<"%">>}
SomePath == CreateProjectPath
PathChoices == {CreateProjectPath, ProjectsLit, <<"/", "%">>}

---------------------------------------------------------------------------
(* State machine *)

Init ==
    /\ DefaultOptions = ZeroOptions
    /\ callerOpts = ZeroOptions
    /\ constructed = ZeroOptions
    /\ last = NoCall
    /\ ap = Idle

\* the owner of the client reconfigures it, between calls
SetDefaultOptions(choices) ==
    /\ ap.pc # "loop"
    /\ last.op = "none"
    /\ \E o \in choices : DefaultOptions' = o
    /\ UNCHANGED <<callerOpts, constructed, last, ap>>

\* the caller constructs an Options value, between calls
NewOptions ==
    /\ last.op = "none"
    /\ \E o \in OptionChoices : callerOpts' = o /\ constructed' = o
    /\ UNCHANGED <<DefaultOptions, last, ap>>

\* calls are synchronous: the caller takes what the call returned and goes on
Resume ==
    /\ last.op # "none"
    /\ last' = NoCall
    /\ UNCHANGED <<DefaultOptions, callerOpts, constructed, ap>>

\* the argument lists a caller can build from its Options value
GetOptsChoices ==
    {<<>>, <<<<>>>>, <<<<callerOpts>>>>}
    \cup {<<<<callerOpts>>, <<o>>>> : o \in {Opt(50, "", <<>>), Opt(0, "b", <<"gid", "notes">>)}}
DoOptsShapes == {"none", "nil", "caller"}
DoOpts(shape) ==
    CASE shape = "none" -> <<>>
      [] shape = "nil" -> <<<<>>>>
      [] OTHER -> <<<<callerOpts>>>>

Get(paths, datas, results, optss, nets) ==
    /\ last.op = "none"
    /\ \E path \in paths, data \in datas, result \in results, opts \in optss, net \in nets :
          last' = Call("get", DefaultOptions, path, data, result, opts, net, NoUpload,
                       get(Client, path, data, result, opts, net))
    /\ UNCHANGED <<DefaultOptions, callerOpts, constructed, ap>>

\* post and put merge the defaults into the Options object opts[0] points to
Do(method, paths, datas, results, shapes, nets) ==
    /\ last.op = "none"
    /\ \E path \in paths, data \in datas, result \in results, shape \in shapes, net \in nets :
          LET out == do(method, Client, path, data, result, DoOpts(shape), net) IN
          /\ last' = Call(method, DefaultOptions, path, data, result, DoOpts(shape), net,
                          NoUpload, out)
          /\ callerOpts' = IF shape = "caller" THEN out.options[1] ELSE callerOpts
          /\ UNCHANGED <<DefaultOptions, constructed, ap>>

Post(paths, datas, results, shapes, nets) == Do("POST", paths, datas, results, shapes, nets)
Put(paths, datas, results, shapes, nets) == Do("PUT", paths, datas, results, shapes, nets)

FieldNameChoices == {<<"f">>, <<"a", "\"", "b">>}
FileNameChoices == {<<"x">>, <<"\\", "x">>}
FileChoices == SeqUpTo({"byte"}, MaxFile)

PostMultipart(paths, results, nets) ==
    /\ last.op = "none"
    /\ \E path \in paths, result \in results, net \in nets,
          field \in FieldNameChoices, file \in FileChoices, filename \in FileNameChoices,
          writer \in {"ok", "header", "footer"} :
          last' = Call("postMultipart", DefaultOptions, path, <<>>, result, <<>>, net,
                       [field |-> field, file |-> file, filename |-> filename,
                        writer |-> writer],
                       postMultipart(Client, path, result, field, file, filename,
                                     "text/plain", writer, net))
    /\ UNCHANGED <<DefaultOptions, callerOpts, constructed, ap>>

\* the resource operations
Returned(op, path, data, before, opts, net, out) ==
    /\ last.op = "none"
    /\ last' = Call(op, DefaultOptions, path, data, before, opts, net, NoUpload, out)
    /\ UNCHANGED <<DefaultOptions, callerOpts, constructed, ap>>

ResourceOpts == {<<>>, <<<<Opt(50, "", <<>>)>>>>}
Payloads == {PlainData, Data("fail", TRUE, TRUE, Filter), Data("none", TRUE, FALSE, Filter)}
Objects == {[ID |-> id, expanded |-> e, result |-> r] :
               id \in IDs, e \in BOOLEAN, r \in {ZeroStruct, Prefilled}}

ExpandOp ==
    \E s \in Objects, net \in FewNets :
       Returned("Expand", ExpandPath(s.ID), <<>>, s.result, <<>>, net, Expand(Client, s, net))
SectionsOp ==
    \E id \in IDs, opts \in ResourceOpts, net \in FewNets :
       Returned("Sections", SectionsPath(id), <<>>, SliceResult(<<>>), opts, net,
                Sections(Client, id, opts, net))
CreateSectionOp ==
    \E id \in IDs, section \in Payloads, net \in FewNets :
       Returned("CreateSection", CreateSectionPath(id), section, ZeroStruct, <<>>, net,
                CreateSection(Client, id, section, net))
InsertSectionOp ==
    \E id \in IDs, request \in Payloads, net \in FewNets :
       Returned("InsertSection", InsertSectionPath(id), request, NilResult, <<>>, net,
                InsertSection(Client, id, request, net))
FetchOp ==
    \E p \in Objects, opts \in ResourceOpts, net \in FewNets :
       Returned("Fetch", FetchPath(p.ID), <<>>, p.result, opts, net,
                Fetch(Client, p, opts, net))
ProjectsOp ==
    \E id \in IDs, opts \in ResourceOpts, net \in FewNets :
       Returned("Projects", ProjectsPath(id), <<>>, SliceResult(<<>>), opts, net,
                Projects(Client, id, opts, net))
CreateProjectOp ==
    \E project \in Payloads, net \in FewNets :
       Returned("CreateProject", CreateProjectPath, project, ZeroStruct, <<>>, net,
                CreateProject(Client, project, net))

\* Workspace.AllProjects
PagingOptions == {<<>>, <<<<Opt(50, "", <<>>)>>>>, <<<<Opt(0, "b", <<>>)>>>>}
PagingDefaults == {ZeroOptions, Opt(20, "", <<"name">>), Opt(0, "b", <<>>)}

AllProjectsCall ==
    /\ ap.pc # "loop"
    /\ \E options \in PagingOptions : ap' = AllProjectsEnter(<<"7">>, options)
    /\ UNCHANGED <<DefaultOptions, callerOpts, constructed, last>>

AllProjectsPage ==
    /\ ap.pc = "loop"
    /\ Len(ap.requests) < MaxRequests
    /\ \E net \in PagingNets : ap' = AllProjectsIterate(ap, Client, net)
    /\ UNCHANGED <<DefaultOptions, callerOpts, constructed, last>>

\* get, post and put under every combination of default, domain and call options
NextOptions ==
    \/ SetDefaultOptions(OptionChoices)
    \/ NewOptions
    \/ Get({SomePath}, DataChoices, {ZeroStruct}, GetOptsChoices, FewNets)
    \/ Post({SomePath}, DataChoices, {ZeroStruct}, DoOptsShapes, FewNets)
    \/ Put({SomePath}, DataChoices, {ZeroStruct}, DoOptsShapes, FewNets)
    \/ Resume
Spec == Init /\ [][NextOptions]_vars

\* the four primitives against every reply and every kind of destination
NextDecode ==
    \/ Get({SomePath}, {<<>>}, ResultChoices, {<<>>}, DecodeNets)
    \/ Post({SomePath}, {<<>>}, ResultChoices, {"none"}, DecodeNets)
    \/ Put({SomePath}, {<<>>}, ResultChoices, {"none"}, DecodeNets)
    \/ PostMultipart({SomePath}, ResultChoices, DecodeNets)
    \/ Resume
SpecDecode == Init /\ [][NextDecode]_vars

\* the resource operations on every object ID
NextResources ==
    \/ ExpandOp \/ SectionsOp \/ CreateSectionOp \/ InsertSectionOp
    \/ FetchOp \/ ProjectsOp \/ CreateProjectOp
    \/ Resume
SpecResources == Init /\ [][NextResources]_vars

\* the fetch-all loop
NextPaging ==
    \/ SetDefaultOptions(PagingDefaults)
    \/ AllProjectsCall
    \/ AllProjectsPage
SpecPaging == Init /\ [][NextPaging]_vars

\* uploads on every exit path
NextUpload ==
    \/ PostMultipart(PathChoices, {ZeroStruct}, FewNets)
    \/ Resume
SpecUpload == Init /\ [][NextUpload]_vars

---------------------------------------------------------------------------
(* Claims *)

TransportOps == {"get", "POST", "PUT", "postMultipart"}
ResourceOps == {"Expand", "Sections", "CreateSection", "InsertSection", "Fetch",
                "Projects", "CreateProject"}

\* the call got a reply whose body is an envelope
GotEnvelope == last.op # "none" /\ last.out.requests # <<>> /\ last.net.ok
               /\ last.net.body.form = "envelope"

\* C1: a reply with status 200 or 201 whose envelope has "data": null or no
\* data member makes get/post/put/postMultipart return a non-nil error.
C1_NullDataIsProtocolError ==
    (/\ last.op \in TransportOps
     /\ GotEnvelope
     /\ last.net.status \in {200, 201}
     /\ last.net.body.data.t \in {"absent", "null"})
    => last.out.err # NoError

\* C2: a reply with an envelope body and a status other than 200 and 201 makes
\* the call return the API error of the envelope's errors and the status, no
\* cursor, and the destination as it was; the destination changes only under
\* status 200 or 201.
C2_ErrorStatusLeavesDestination ==
    last.op \in TransportOps =>
      /\ (GotEnvelope /\ last.net.status \notin {200, 201}) =>
            /\ last.out.err = [kind |-> "api", status |-> last.net.status,
                               messages |-> last.net.body.errors]
            /\ last.out.nextPage = <<>>
            /\ last.out.result = last.before
      /\ last.out.result # last.before =>
            GotEnvelope /\ last.net.status \in {200, 201}

C2_Witness ==
    /\ last.op = "get"
    /\ GotEnvelope
    /\ last.net.status = 404
    /\ last.net.body.errors = <<"not found">>
    /\ last.net.body.data = Obj("1", "1")
    /\ last.before = Prefilled
    /\ last.out.err.kind = "api"
    /\ last.out.result = Prefilled

\* the value the last of the layers that sets key gives it, <<>> when none does
RECURSIVE LastSetting(_, _)
LastSetting(layers, key) ==
    IF layers = <<>> THEN <<>>
    ELSE IF layers[Len(layers)][key] # <<>> THEN layers[Len(layers)][key]
    ELSE LastSetting(SubSeq(layers, 1, Len(layers) - 1), key)

\* the layers of a get: the defaults, the domain value, each Options in order
GetLayers(call) ==
    <<OptionsValues(call.A)>>
    \o (IF call.data = <<>> THEN <<>> ELSE <<call.data[1].params>>)
    \o [i \in 1..Len(call.opts) |->
          IF call.opts[i] = <<>> THEN EmptyValues ELSE OptionsValues(call.opts[i][1])]

\* the Options B a post or put was given (none and nil count as empty)
GivenOptions(call) ==
    IF call.opts = <<>> \/ call.opts[1] = <<>> THEN ZeroOptions ELSE call.opts[1][1]

\* C3: the options sent carry, for every key the call's Options set, exactly
\* that value (the default replaced, not appended to) and, for every other key
\* the defaults set, the default; in get the rule runs over the layers
\* defaults, domain value, each Options in argument order.
C3_LaterOptionsReplace ==
    (last.op \in {"get", "POST", "PUT"} /\ last.out.requests # <<>>) =>
      LET req == last.out.requests[1] IN
      IF last.op = "get"
      THEN \A k \in Keys : PairsOf(req.query, k) = LastSetting(GetLayers(last), k)
      ELSE \A k \in Keys :
             req.json[1].options[k] =
               IF OptionsValues(GivenOptions(last))[k] # <<>>
               THEN OptionsValues(GivenOptions(last))[k]
               ELSE OptionsValues(last.A)[k]

C3_Witness ==
    /\ last.op = "get"
    /\ last.out.requests # <<>>
    /\ last.A = Opt(20, "", <<"name">>)
    /\ last.data = <<>>
    /\ last.opts = <<<<Opt(0, "b", <<"gid", "notes">>)>>, <<Opt(50, "", <<>>)>>>>
    /\ last.out.requests[1].query =
          <<<<"limit", "50">>, <<"offset", "b">>, <<"opt_fields", "gid">>,
            <<"opt_fields", "notes">>>>

\* C4: when the payload of a get, post or put has a Validate that fails, the
\* call returns that error and HTTPClient.Do is not invoked.
C4_ValidationPrecedesRequest ==
    (/\ last.op \in {"get", "POST", "PUT"}
     /\ last.data # <<>>
     /\ last.data[1].validate = "fail")
    => /\ last.out.exit = "return"
       /\ last.out.err = Err("validation")
       /\ last.out.requests = <<>>

C4_Witness ==
    /\ last.op = "POST"
    /\ last.data # <<>>
    /\ last.data[1].validate = "fail"
    /\ last.net.ok
    /\ last.out.err = Err("validation")
    /\ last.out.requests = <<>>

\* C8: no call writes the client configuration or an Options value of the
\* caller: every Options value still equals what the caller constructed.
C8_CallerOptionsUntouched == callerOpts = constructed

\* a reply that is one page of projects, and whether it carries a cursor
ProperPage(net) ==
    /\ net.ok
    /\ net.body.form = "envelope"
    /\ net.status \in {200, 201}
    /\ net.body.data.t = "array"
    /\ BadElem \notin Range(net.body.data.elems)
HasCursor(net) == net.body.next_page.t = "object"

RECURSIVE ConcatPages(_)
ConcatPages(nets) ==
    IF nets = <<>> THEN <<>> ELSE Head(nets).body.data.elems \o ConcatPages(Tail(nets))

\* the server returned n pages, the first n-1 with a cursor and the n-th without
ServedAllPages(nets) ==
    /\ nets # <<>>
    /\ \A i \in 1..Len(nets) :
          ProperPage(nets[i]) /\ (HasCursor(nets[i]) <=> i < Len(nets))

\* C5: against a server that returns n pages, the first n-1 with a cursor and
\* the n-th without, AllProjects issues exactly n requests, ends after the
\* n-th and returns, with a nil error, the pages' items concatenated in order.
C5_AllPagesConcatenated ==
    ServedAllPages(ap.nets) =>
      /\ ap.pc = "done"
      /\ Len(ap.requests) = Len(ap.nets)
      /\ ap.ret.exit = "return"
      /\ ap.ret.err = NoError
      /\ ap.ret.result = ConcatPages(ap.nets)

C5_Witness ==
    /\ ServedAllPages(ap.nets)
    /\ Len(ap.nets) = 3
    /\ ap.pc = "done"
    /\ ap.ret.result = <<"p2", "p1">>

\* C10: whatever extra Options and DefaultOptions, the first listing request
\* of AllProjects carries no offset and every later one carries exactly the
\* offset of the cursor the preceding response returned.
C10_RequestsFollowCursor ==
    \A i \in 1..Len(ap.requests) :
       PairsOf(ap.requests[i].query, "offset") =
          IF i = 1 THEN <<>> ELSE <<ap.nets[i - 1].body.next_page.Offset>>

\* C6: an operation that returns a non-nil error returns no result and no
\* cursor and leaves nothing decoded in the destination; AllProjects failing
\* on a page returns none of the items of the pages before it.
C6_NoResultWithError ==
    /\ (last.op # "none" /\ last.out.exit = "return" /\ last.out.err # NoError) =>
          /\ last.out.nextPage = <<>>
          /\ last.out.result = last.before
    /\ (ap.pc = "done" /\ ap.ret.err # NoError) => ap.ret.result = <<>>

\* C9: every resource operation hands the transport a path that begins with
\* "/", so none of them panics in getURL, and each issues its request when
\* validation and serialization succeed.
C9_ResourcePathsRooted ==
    last.op \in ResourceOps =>
      /\ last.path # <<>> /\ last.path[1] = "/"
      /\ last.out.exit # "panic"

\* C7: postMultipart closes the file stream exactly once on every exit, and
\* for a zero-length stream the request body is the header bytes followed
\* directly by the footer bytes.
C7_StreamClosedOnce ==
    last.op = "postMultipart" =>
      /\ last.out.closes = 1
      /\ (last.up.file = <<>> /\ last.out.requests # <<>>) =>
            last.out.requests[1].bytes =
               MultipartHeader(last.up.field, last.up.filename, "text/plain")
               \o MultipartFooter

C7_Witness ==
    /\ last.op = "postMultipart"
    /\ last.out.exit = "panic"
    /\ last.up.file = <<>>
    /\ last.out.closes = 1

====
